---- MODULE Spec2Model ----
(***************************************************************************)
(* Model of USB_18v7.c: the Pololu Simple Motor Controller serial helpers  *)
(* smcGetVariable, smcGetTargetSpeed, smcGetErrorStatus, smcExitSafeStart  *)
(* and smcSetTargetSpeed, each taken at the granularity of its write() and *)
(* read() system calls on the file descriptor, together with the serial    *)
(* line and the controller at its far end.                                 *)
(***************************************************************************)
EXTENDS Integers, Sequences, FiniteSets, TLC

\* #define SERIAL_ERROR -9999
SERIAL_ERROR == -9999

\* Number of calls the caller makes on the descriptor in one run of Spec.
MaxCalls == 2
\* Largest |speed| handed to smcSetTargetSpeed in SpecSpeed.
MaxSpeed == 8192

\* Values of an unsigned char.
Byte == 0 .. 255
\* Response bytes the controller answers with in Spec and SpecSeq.
ByteSamples == {0, 100, 255}
\* Variable ids handed to smcGetVariable.
IdSamples == {0, 20, 255}
\* Speeds handed to smcSetTargetSpeed in Spec.
SpeedSamples == {-3200, -1, 0, 1, 3200}

VARIABLES
    pc,        \* where the caller is: "idle", "read" (inside smcGetVariable,
               \* between its write and its read), "ret" (a function is returning)
    op,        \* the function the caller invoked
    arg,       \* its argument (variableId or speed; 0 when it has none)
    command,   \* the command buffer handed to write()
    wret,      \* what write() returned
    rret,      \* what read() returned
    response,  \* the bytes read() stored in response[]
    val,       \* what smcGetVariable returns
    result,    \* what the invoked function returns
    nwrites,   \* write() calls of this invocation
    nreads,    \* read() calls of this invocation
    sent,      \* the bytes write() put on the line in this invocation
    wire,      \* bytes the descriptor accepted, not yet parsed by the controller
    inflight,  \* response bytes the controller sent, not yet at the host
    rx,        \* bytes waiting in the host's receive buffer
    calls,     \* invocations so far
    budget     \* invocations the caller makes in this run

vars == <<pc, op, arg, command, wret, rret, response, val, result, nwrites,
          nreads, sent, wire, inflight, rx, calls, budget>>

NoValue == "none"

Min(a, b) == IF a < b THEN a ELSE b

Abs(x) == IF x < 0 THEN -x ELSE x

----------------------------------------------------------------------------
(* C arithmetic *)

RECURSIVE BitAnd(_, _)
\* a & b on non-negative ints
BitAnd(a, b) ==
    IF a = 0 \/ b = 0 THEN 0
    ELSE (IF a % 2 = 1 /\ b % 2 = 1 THEN 1 ELSE 0) + 2 * BitAnd(a \div 2, b \div 2)

\* a >> n on a non-negative int
ShiftRight(a, n) == a \div (2 ^ n)

\* conversion of an int to unsigned char
UnsignedChar(x) == x % 256

\* (signed short)x: the low 16 bits read as two's complement
SignedShort(x) ==
    LET m == x % 65536 IN IF m >= 32768 THEN m - 65536 ELSE m

----------------------------------------------------------------------------
(* The command buffers and return expressions of the functions *)

\* unsigned char command[] = {0xA1, variableId};
GetVariableCommand(variableId) == <<161, UnsignedChar(variableId)>>

\* Mutant: the response decoded high byte first.
GetVariableValueBigEndian(resp) == resp[2] + 256 * resp[1]

\* return response[0] + 256 * response[1];
GetVariableValue(resp) == resp[1] + 256 * resp[2]

\* Mutant: the (signed short) cast left out.
GetTargetSpeedValueNoCast(v) == v

\* return val == SERIAL_ERROR ? SERIAL_ERROR : (signed short)val;
GetTargetSpeedValue(v) == IF v = SERIAL_ERROR THEN SERIAL_ERROR ELSE SignedShort(v)

\* const unsigned char command = 0x83;
ExitSafeStartCommand == <<131>>

\* Mutant: speed 0 sent as reverse.
SetTargetSpeedDirectionZeroReverse(speed) == IF speed <= 0 THEN 134 ELSE 133

\* the direction byte: 0x86 (Motor Reverse) if speed < 0, else 0x85 (Motor Forward)
SetTargetSpeedDirection(speed) == IF speed < 0 THEN 134 ELSE 133

\* if (speed < 0) speed = -speed;
SetTargetSpeedMagnitude(speed) == IF speed < 0 THEN -speed ELSE speed

\* command[1] = speed & 0x1F;
SetTargetSpeedLow(mag) == UnsignedChar(BitAnd(mag, 31))

\* Mutant: the 0x7F mask left out.
SetTargetSpeedHighNoMask(mag) == UnsignedChar(ShiftRight(mag, 5))

\* command[2] = speed >> 5 & 0x7F;
SetTargetSpeedHigh(mag) == UnsignedChar(BitAnd(ShiftRight(mag, 5), 127))

SetTargetSpeedCommand(speed) ==
    <<SetTargetSpeedDirection(speed),
      SetTargetSpeedLow(SetTargetSpeedMagnitude(speed)),
      SetTargetSpeedHigh(SetTargetSpeedMagnitude(speed))>>

\* Mutant: every caller gets the value through the (signed short) cast.
CallerValueAllSigned(caller, v) == GetTargetSpeedValue(v)

\* What the function the caller invoked returns, given smcGetVariable's value.
CallerValue(caller, v) ==
    IF caller = "smcGetTargetSpeed" THEN GetTargetSpeedValue(v) ELSE v

GetVarOps == {"smcGetVariable", "smcGetTargetSpeed", "smcGetErrorStatus"}
SendOps == {"smcExitSafeStart", "smcSetTargetSpeed"}

----------------------------------------------------------------------------
(* The descriptor *)

\* The bytes of buf that write() put on the line when it returned n,
\* each marked with the invocation that sent it.
Written(buf, n, who) ==
    [i \in 1 .. (IF n < 0 THEN 0 ELSE n) |-> [b |-> buf[i], rq |-> who]]

Values(s) == [i \in 1 .. Len(s) |-> s[i].b]

Init0 ==
    /\ pc = "idle"
    /\ op = NoValue
    /\ arg = 0
    /\ command = <<>>
    /\ wret = NoValue
    /\ rret = NoValue
    /\ response = <<>>
    /\ val = NoValue
    /\ result = NoValue
    /\ nwrites = 0
    /\ nreads = 0
    /\ sent = <<>>
    /\ wire = <<>>
    /\ inflight = <<>>
    /\ rx = <<>>
    /\ calls = 0

Init == Init0 /\ budget = MaxCalls

\* One invocation on a freshly opened descriptor.
InitOne == Init0 /\ budget = 1

\* Entry of a function up to and including its write(fd, command, len),
\* which returns n: -1, or the number of bytes accepted.
Enter(caller, a, cmd, n) ==
    /\ pc = "idle"
    /\ calls < budget
    /\ n \in -1 .. Len(cmd)
    /\ calls' = calls + 1
    /\ op' = caller
    /\ arg' = a
    /\ command' = cmd
    /\ wret' = n
    /\ nwrites' = 1
    /\ nreads' = 0
    /\ rret' = NoValue
    /\ response' = <<>>
    /\ sent' = Values(Written(cmd, n, calls + 1))
    /\ wire' = wire \o Written(cmd, n, calls + 1)
    /\ UNCHANGED <<inflight, rx, budget>>

\* smcGetVariable, lines 26-31: write the command; -1 returns SERIAL_ERROR,
\* anything else goes on to the read.
smcGetVariable(caller, variableId, n) ==
    /\ Enter(caller, variableId, GetVariableCommand(variableId), n)
    /\ IF n = -1
       THEN /\ val' = SERIAL_ERROR
            /\ result' = CallerValue(caller, SERIAL_ERROR)
            /\ pc' = "ret"
       ELSE /\ val' = NoValue
            /\ result' = NoValue
            /\ pc' = "read"

\* smcGetVariable, lines 33-40: read(fd, response, 2) returns r: -1, or the
\* number of bytes taken from the receive buffer (what is there, at most 2).
smcGetVariableRead(r) ==
    /\ pc = "read"
    /\ r \in {-1, Min(2, Len(rx))}
    /\ nreads' = nreads + 1
    /\ rret' = r
    /\ response' = IF r = -1 THEN <<>> ELSE SubSeq(rx, 1, r)
    /\ rx' = IF r = -1 THEN rx ELSE SubSeq(rx, r + 1, Len(rx))
    /\ val' = IF r # 2 THEN SERIAL_ERROR ELSE GetVariableValue(Values(SubSeq(rx, 1, 2)))
    /\ result' = CallerValue(op, val')
    /\ pc' = "ret"
    /\ UNCHANGED <<op, arg, command, wret, nwrites, sent, wire, inflight, calls,
                   budget>>

\* int val = smcGetVariable(fd, 20);
smcGetTargetSpeed(n) == smcGetVariable("smcGetTargetSpeed", 20, n)

\* return smcGetVariable(fd, 0);
smcGetErrorStatus(n) == smcGetVariable("smcGetErrorStatus", 0, n)

smcExitSafeStart(n) ==
    /\ Enter("smcExitSafeStart", 0, ExitSafeStartCommand, n)
    /\ val' = NoValue
    /\ result' = IF n = -1 THEN SERIAL_ERROR ELSE 0
    /\ pc' = "ret"

smcSetTargetSpeed(speed, n) ==
    /\ Enter("smcSetTargetSpeed", speed, SetTargetSpeedCommand(speed), n)
    /\ val' = NoValue
    /\ result' = IF n = -1 THEN SERIAL_ERROR ELSE 0
    /\ pc' = "ret"

\* The function returns to its caller; its locals are gone.
Return ==
    /\ pc = "ret"
    /\ pc' = "idle"
    /\ op' = NoValue
    /\ arg' = 0
    /\ command' = <<>>
    /\ wret' = NoValue
    /\ rret' = NoValue
    /\ response' = <<>>
    /\ val' = NoValue
    /\ result' = NoValue
    /\ nwrites' = 0
    /\ nreads' = 0
    /\ sent' = <<>>
    /\ UNCHANGED <<wire, inflight, rx, calls, budget>>

----------------------------------------------------------------------------
(* The controller and the line back to the host *)

\* A complete Get Variable request (0xA1, id) heads the line.
RequestDue == Len(wire) >= 2 /\ wire[1].b = 161

\* The controller answers the Get Variable request at the head of the line
\* with the two bytes b0, b1 (low, high).
ControllerAnswer(b0, b1) ==
    /\ RequestDue
    /\ wire' = SubSeq(wire, 3, Len(wire))
    /\ inflight' = inflight \o <<[b |-> b0, rq |-> wire[2].rq],
                                 [b |-> b1, rq |-> wire[2].rq]>>
    /\ UNCHANGED <<pc, op, arg, command, wret, rret, response, val, result,
                   nwrites, nreads, sent, rx, calls, budget>>

\* The controller takes a command that has no answer: Exit Safe Start
\* (0x83), Set Target Speed (0x85 / 0x86 and two data bytes); a byte that
\* starts no command is dropped.
ControllerTake ==
    /\ wire # <<>>
    /\ LET h == wire[1].b IN
       \/ /\ h = 131
          /\ wire' = Tail(wire)
       \/ /\ h \in {133, 134}
          /\ Len(wire) >= 3
          /\ wire' = SubSeq(wire, 4, Len(wire))
       \/ /\ h \notin {161, 131, 133, 134}
          /\ wire' = Tail(wire)
    /\ UNCHANGED <<pc, op, arg, command, wret, rret, response, val, result,
                   nwrites, nreads, sent, inflight, rx, calls, budget>>

\* One response byte arrives in the host's receive buffer.
Deliver ==
    /\ inflight # <<>>
    /\ rx' = Append(rx, Head(inflight))
    /\ inflight' = Tail(inflight)
    /\ UNCHANGED <<pc, op, arg, command, wret, rret, response, val, result,
                   nwrites, nreads, sent, wire, calls, budget>>

----------------------------------------------------------------------------
(* Specifications *)

\* The caller is between two calls and has calls left to make.
CanCall == pc = "idle" /\ calls < budget

\* Any sequence of MaxCalls calls, every outcome of write() and read().
Next ==
    \/ CanCall /\ \E id \in IdSamples, n \in -1 .. 2 :
                      smcGetVariable("smcGetVariable", id, n)
    \/ CanCall /\ \E n \in -1 .. 2 : smcGetTargetSpeed(n)
    \/ CanCall /\ \E n \in -1 .. 2 : smcGetErrorStatus(n)
    \/ CanCall /\ \E n \in -1 .. 1 : smcExitSafeStart(n)
    \/ CanCall /\ \E speed \in SpeedSamples, n \in -1 .. 3 :
                      smcSetTargetSpeed(speed, n)
    \/ \E r \in -1 .. 2 : smcGetVariableRead(r)
    \/ Return
    \/ RequestDue /\ \E b0 \in ByteSamples, b1 \in ByteSamples :
                         ControllerAnswer(b0, b1)
    \/ ControllerTake
    \/ Deliver

Spec == Init /\ [][Next]_vars

\* Calls of smcGetVariable on a line whose write() takes the whole command
\* and whose read() does not fail: it returns the bytes that have arrived.
NextSeq ==
    \/ CanCall /\ \E id \in IdSamples : smcGetVariable("smcGetVariable", id, 2)
    \/ \E r \in 0 .. 2 : smcGetVariableRead(r)
    \/ Return
    \/ RequestDue /\ \E b0 \in ByteSamples, b1 \in ByteSamples :
                         ControllerAnswer(b0, b1)
    \/ Deliver

SpecSeq == Init /\ [][NextSeq]_vars

\* One call of smcSetTargetSpeed, for every speed up to MaxSpeed either way.
NextSpeed ==
    \/ CanCall /\ \E speed \in -MaxSpeed .. MaxSpeed, n \in -1 .. 3 :
                      smcSetTargetSpeed(speed, n)
    \/ Return
    \/ ControllerTake

SpecSpeed == InitOne /\ [][NextSpeed]_vars

\* The bytes the controller may answer a request for variable id with in
\* SpecValue: any byte for the sampled ids, the sampled bytes for the others.
AnswerBytes(id) == IF id \in IdSamples THEN Byte ELSE ByteSamples

\* One query, for every variable id, the controller answering with two bytes.
NextValue ==
    \/ CanCall /\ \E id \in Byte, n \in -1 .. 2 :
                      smcGetVariable("smcGetVariable", id, n)
    \/ CanCall /\ \E n \in -1 .. 2 : smcGetTargetSpeed(n)
    \/ CanCall /\ \E n \in -1 .. 2 : smcGetErrorStatus(n)
    \/ \E r \in -1 .. 2 : smcGetVariableRead(r)
    \/ Return
    \/ RequestDue /\ \E b0 \in AnswerBytes(wire[2].b), b1 \in AnswerBytes(wire[2].b) :
                         ControllerAnswer(b0, b1)
    \/ Deliver

SpecValue == InitOne /\ [][NextValue]_vars

----------------------------------------------------------------------------
(* Claims *)

\* A function of the smcGetVariable family is returning.
GetVarReturning == pc = "ret" /\ op \in GetVarOps

\* smcExitSafeStart or smcSetTargetSpeed is returning.
SendReturning == pc = "ret" /\ op \in SendOps

\* The write and the 2-byte read of a returning query both went through.
ExchangeDone == GetVarReturning /\ wret = 2 /\ nreads = 1 /\ rret = 2

\* C1: smcGetVariable returns SERIAL_ERROR whenever its write returned -1,
\* its write took fewer than the 2 command bytes, its read returned -1, or
\* its read returned fewer than 2 bytes.
C1_ErrorOnEveryChannelFailure ==
    GetVarReturning =>
        ((wret < 2 \/ (nreads = 1 /\ rret < 2)) => val = SERIAL_ERROR)

\* C2: when the write of smcGetVariable returned -1 or took fewer than the
\* 2 command bytes, the invocation makes no read() call and takes no
\* response byte off the line.
C2_NoReadAfterFailedWrite ==
    (GetVarReturning /\ wret < 2) => (nreads = 0 /\ response = <<>>)

\* C3: smcExitSafeStart and smcSetTargetSpeed return SERIAL_ERROR whenever
\* the write returned -1 or took fewer bytes than the command has, and when
\* they return 0 the line has got the whole command.
C3_SuccessMeansAllBytesWritten ==
    SendReturning =>
        /\ wret < Len(command) => result = SERIAL_ERROR
        /\ result = 0 => sent = command

\* C8: every invocation makes exactly one write() call; smcGetVariable makes
\* at most one read() call, after its write; smcExitSafeStart and
\* smcSetTargetSpeed make none; after a call that failed (a write that
\* returned -1 or was short) no further call is made on the descriptor.
C8_CallDiscipline ==
    /\ pc \in {"read", "ret"} => nwrites = 1
    /\ nreads <= 1
    /\ nreads = 1 => (nwrites = 1 /\ op \in GetVarOps)
    /\ op \in SendOps => nreads = 0
    /\ (pc = "ret" /\ wret < Len(command)) => nreads = 0

\* C10: with whole writes and a controller that answers every request with
\* 2 bytes, a call of smcGetVariable that returns a value returns
\* low + 256 * high of the answer to its own request.
C10_AnswerToOwnRequest ==
    (GetVarReturning /\ val # SERIAL_ERROR) =>
        /\ response[1].rq = calls
        /\ response[2].rq = calls
        /\ val = response[1].b + 256 * response[2].b

\* smcSetTargetSpeed is returning.
SpeedReturning == pc = "ret" /\ op = "smcSetTargetSpeed"

\* C4: for every speed in -3200 .. 3200 the command of smcSetTargetSpeed is
\* [direction, low, high] with direction 0x86 for speed < 0 and 0x85
\* otherwise, low = |speed| & 0x1F, high = (|speed| >> 5) & 0x7F, so that
\* low + 32 * high = |speed|; a write that takes the whole command puts
\* exactly these 3 bytes on the line.
C4_SpeedEncoding ==
    (SpeedReturning /\ arg \in -3200 .. 3200) =>
        /\ command = <<IF arg < 0 THEN 134 ELSE 133,
                       Abs(arg) % 32,
                       (Abs(arg) \div 32) % 128>>
        /\ command[2] + 32 * command[3] = Abs(arg)
        /\ wret = 3 => sent = command
        /\ arg = 3200 => command = <<133, 0, 100>>
        /\ arg = -3200 => command = <<134, 0, 100>>
        /\ arg = 1 => command = <<133, 1, 0>>
        /\ arg = 0 => command = <<133, 0, 0>>

C4_Witness ==
    SpeedReturning /\ arg = -3200 /\ wret = 3 /\ sent = <<134, 0, 100>>

\* C9: smcSetTargetSpeed rejects no speed: for 3200 < |speed| <= MaxSpeed,
\* when the write takes the whole command it returns 0 and the line gets
\* [direction, low, high] with low <= 0x1F, high <= 0x7F and
\* low + 32 * high = |speed| mod 4096, the direction set by the sign alone.
C9_OutOfRangeSpeedWraps ==
    (SpeedReturning /\ Abs(arg) > 3200 /\ wret = 3) =>
        /\ result = 0
        /\ Len(sent) = 3
        /\ sent[1] = (IF arg < 0 THEN 134 ELSE 133)
        /\ sent[2] <= 31
        /\ sent[3] <= 127
        /\ sent[2] + 32 * sent[3] = Abs(arg) % 4096
        /\ Abs(arg) < 4096 => sent[2] + 32 * sent[3] = Abs(arg)

C9_Witness ==
    SpeedReturning /\ arg = -4097 /\ wret = 3 /\ result = 0 /\ sent = <<134, 1, 0>>

\* C5: a smcGetVariable / smcGetErrorStatus exchange whose write takes both
\* bytes and whose read returns 2 bytes puts [0xA1, id] on the line and
\* returns b0 + 256 * b1 of the bytes read, a value in 0 .. 65535;
\* smcGetErrorStatus asks for id 0.
C5_GetVariableExchange ==
    (ExchangeDone /\ op \in {"smcGetVariable", "smcGetErrorStatus"}) =>
        /\ arg \in Byte
        /\ sent = <<161, arg>>
        /\ op = "smcGetErrorStatus" => arg = 0
        /\ val \in 0 .. 65535
        /\ val % 256 = response[1].b
        /\ val \div 256 = response[2].b
        /\ result = val
        /\ Values(response) = <<0, 0>> => result = 0

C5_Witness ==
    /\ ExchangeDone
    /\ op = "smcGetVariable"
    /\ sent = <<161, 255>>
    /\ Values(response) = <<52, 18>>
    /\ result = 4660

\* C6: smcGetTargetSpeed asks for variable 20 and returns the two's
\* complement reading of the 16-bit value smcGetVariable returned (v below
\* 32768, v - 65536 otherwise); SERIAL_ERROR from smcGetVariable is
\* returned as SERIAL_ERROR.
C6_TargetSpeedSigned ==
    (GetVarReturning /\ op = "smcGetTargetSpeed") =>
        /\ command = <<161, 20>>
        /\ val = SERIAL_ERROR => result = SERIAL_ERROR
        /\ val # SERIAL_ERROR =>
              /\ val \in 0 .. 65535
              /\ result = (IF val < 32768 THEN val ELSE val - 65536)
        /\ val = 65535 => result = -1
        /\ val = 3200 => result = 3200

C6_Witness ==
    /\ ExchangeDone
    /\ op = "smcGetTargetSpeed"
    /\ Values(response) = <<255, 255>>
    /\ val = 65535
    /\ result = -1

\* C7 as stated: an exchange whose write and 2-byte read both went through
\* never returns SERIAL_ERROR, for smcGetVariable (0 .. 65535) and for
\* smcGetTargetSpeed (-32768 .. 32767) alike.
C7_ErrorNeverAmbiguous ==
    ExchangeDone =>
        /\ result # SERIAL_ERROR
        /\ op = "smcGetTargetSpeed" => result \in -32768 .. 32767
        /\ op # "smcGetTargetSpeed" => result \in 0 .. 65535

\* C7 amended: a completed smcGetVariable / smcGetErrorStatus exchange
\* returns a value in 0 .. 65535, never SERIAL_ERROR; a completed
\* smcGetTargetSpeed exchange returns a value in -32768 .. 32767, which is
\* SERIAL_ERROR exactly when the response bytes are 0xF1, 0xD8.
C7_AmbiguousOnlyForOneSpeed ==
    ExchangeDone =>
        /\ op # "smcGetTargetSpeed" =>
              (result \in 0 .. 65535 /\ result # SERIAL_ERROR)
        /\ op = "smcGetTargetSpeed" =>
              /\ result \in -32768 .. 32767
              /\ result = SERIAL_ERROR <=> Values(response) = <<241, 216>>

C7_Witness ==
    /\ ExchangeDone
    /\ op = "smcGetTargetSpeed"
    /\ Values(response) = <<241, 216>>
    /\ val = 55537
    /\ result = SERIAL_ERROR

====
